---- MODULE Spec2Model ----
(***************************************************************************)
(* SlicerSynthSeg: configuration validator (SynthSegConfig.py), pipeline   *)
(* CLI (synthseg_complete.py) and the Slicer module logic and widget       *)
(* (SlicerSynthSeg.py).                                                    *)
(*                                                                         *)
(* A path is a sequence of name components; the filesystem is the set of   *)
(* paths that exist, closed under taking the parent directory; some of     *)
(* them are regular files, the others directories.                         *)
(***************************************************************************)
EXTENDS Integers, Sequences, FiniteSets, TLC

VARIABLES
    fs,         \* the set of paths that exist on disk
    files,      \* the paths of fs that are regular files; the others are directories
    csvData,    \* content of volumes.csv in the output folder (<<>> when absent)
    xlsxData,   \* content of volumes.xlsx in the output folder
    call,       \* a direct call of a validator or of the CSV step: function, arguments, subprocess results
    ret,        \* what that call returned, or <<>> before it returns
    cliPc,      \* synthseg_complete.main: "none" (not running), "start", "segment", "verify", "excel", "cleanup", "exited"
    cliArgs,    \* its parsed arguments: input, output, keep_csv
    cliExit,    \* its exit code, -1 while it has not exited
    cliOut,     \* what it printed, one tag per message
    cliErr,     \* what reached its stderr
    toolkitRun, \* outcome of the SynthSeg_predict.py subprocess, Raised("not run") before
    toolkitCsv, \* the CSV texts the segmentation toolkit may write
    stdoutEncoding, \* sys.stdout.encoding of the pipeline process
    importable, \* whether 'from SynthSegConfig import SynthSegConfig' succeeds
    configFile, \* content of config.json
    config,     \* SlicerSynthSegLogic.config: loaded (not None) and its .config dict
    inputSelected,  \* ui.inputVolumeSelector.currentNode() is not None
    applyEnabled,   \* ui.applyButton.enabled
    applyText,      \* ui.applyButton.text
    configStatus,   \* ui.configStatusLabel.text
    dialogState,    \* the modal ConfigurationDialog: "closed", "exec" (dialog.exec_() is running), "accepted" (accept() was called, exec_() has not returned yet)
    lastDialog,     \* the kind of message box shown last: "info", "warning", "error", "" before any
    applyStack,     \* the onApplyButton calls in progress, innermost last, each at "pump", "subprocess", "cleanup", "finish" or "box"
    applyDialogs,   \* for each onApplyButton call in progress, innermost last, the message boxes it has shown
    exc,            \* the exception raised inside process(), NoExc if none
    outputSegmentation, \* process(): the node loaded, "None" before
    sceneSegs,      \* number of segmentation nodes in the scene
    cmd,            \* process(): the command line run
    parameterNode   \* widget._parameterNode: "None", or "node" (observed for ModifiedEvent)

diskVars == <<fs, files, csvData, xlsxData>>

callVars == <<call, ret>>

cliVars == <<cliPc, cliArgs, cliExit, cliOut, cliErr, toolkitRun, toolkitCsv, stdoutEncoding>>

cfgVars == <<importable, configFile, config>>

uiVars == <<inputSelected, applyEnabled, applyText, configStatus, dialogState, lastDialog>>

procVars == <<applyStack, applyDialogs, exc, outputSegmentation, sceneSegs, cmd>>

nodeVars == <<parameterNode>>

\* everything outside the pipeline process and the disk
appVars == <<callVars, cfgVars, uiVars, procVars, nodeVars>>

vars == <<diskVars, cliVars, appVars>>

(***************************************************************************)
(* Paths                                                                   *)
(***************************************************************************)
\* pathlib's "/" operator: Path(p) / name
Join(p, name) == Append(p, name)

\* Path.exists() and os.path.exists()
exists(f, p) == p \in f

Parent(p) == SubSeq(p, 1, Len(p) - 1)

\* every existing path of more than one component has an existing parent
Closed(f) == \A p \in f : Len(p) > 1 => Parent(p) \in f

(***************************************************************************)
(* SynthSegConfig.validate_synthseg_path                                   *)
(***************************************************************************)
predict_script(path) == Join(Join(path, "SynthSeg"), "predict_synthseg.py")

model_dir(path) == Join(path, "models")

model_v1(path) == Join(model_dir(path), "synthseg_1.0.h5")

\* the models directory checked before the predict script
validate_synthseg_path_models_first(f, path) ==
    IF ~exists(f, path) THEN <<FALSE, "Directory does not exist">>
    ELSE IF ~exists(f, model_dir(path)) THEN <<FALSE, "models directory not found">>
    ELSE IF ~exists(f, predict_script(path)) THEN <<FALSE, "SynthSeg/predict_synthseg.py not found">>
    ELSE IF ~exists(f, model_v1(path)) THEN <<FALSE, "synthseg_1.0.h5 model not found in models/">>
    ELSE <<TRUE, "SynthSeg installation valid">>

validate_synthseg_path(f, path) ==
    IF ~exists(f, path) THEN <<FALSE, "Directory does not exist">>
    ELSE IF ~exists(f, predict_script(path)) THEN <<FALSE, "SynthSeg/predict_synthseg.py not found">>
    ELSE IF ~exists(f, model_dir(path)) THEN <<FALSE, "models directory not found">>
    ELSE IF ~exists(f, model_v1(path)) THEN <<FALSE, "synthseg_1.0.h5 model not found in models/">>
    ELSE <<TRUE, "SynthSeg installation valid">>

(***************************************************************************)
(* SynthSegConfig.validate_python_env                                      *)
(*                                                                         *)
(* The outcome of one subprocess.run is an input: the child either exits   *)
(* with a return code or the call raises (TimeoutExpired, or another       *)
(* exception such as OSError when the file cannot be executed).            *)
(***************************************************************************)
required_packages == <<"tensorflow", "keras", "nibabel", "scipy", "numpy">>

Exited(rc) == [exc |-> "none", returncode |-> rc]

Raised(e) == [exc |-> e, returncode |-> 0]

RunOutcomes == {Exited(0), Exited(1), Raised("TimeoutExpired"), Raised("OSError")}

\* ', '.join(missing)
RECURSIVE join(_)
join(names) ==
    IF Len(names) = 0 THEN ""
    ELSE IF Len(names) = 1 THEN names[1]
    ELSE names[1] \o ", " \o join(Tail(names))

\* the per-package loop from package i on; tests[i] is the outcome of the i-th
\* 'import pkg' subprocess. Returns the missing list, or the exception that ended the loop.
RECURSIVE missing_from(_, _, _)
missing_from(tests, i, missing) ==
    IF i > Len(required_packages) THEN [exc |-> "none", missing |-> missing]
    ELSE IF tests[i].exc # "none" THEN [exc |-> tests[i].exc, missing |-> missing]
    ELSE missing_from(tests, i + 1,
                      IF tests[i].returncode # 0
                      THEN Append(missing, required_packages[i]) ELSE missing)

\* the handlers without the TimeoutExpired clause: every exception is a validation error
except_result_no_timeout_clause(e) ==
    <<FALSE, "Validation error: " \o e>>

\* lines 107-110: except subprocess.TimeoutExpired / except Exception
except_result(e) ==
    IF e = "TimeoutExpired" THEN <<FALSE, "Python validation timed out">>
    ELSE <<FALSE, "Validation error: " \o e>>

\* result: outcome of the combined import; tests: outcomes of the per-package imports
validate_python_env(f, python_path, result, tests) ==
    IF ~exists(f, python_path) THEN <<FALSE, "Python executable not found">>
    ELSE IF result.exc # "none" THEN except_result(result.exc)
    ELSE IF result.returncode # 0 THEN
        LET m == missing_from(tests, 1, <<>>) IN
        IF m.exc # "none" THEN except_result(m.exc)
        ELSE <<FALSE, "Missing packages: " \o join(m.missing)>>
    ELSE <<TRUE, "Python environment valid">>

(***************************************************************************)
(* synthseg_complete.py, step 2: CSV to spreadsheet                        *)
(*                                                                         *)
(* A CSV file is a sequence of lines, a line a sequence of cells (text).   *)
(* A cell stands for the text pandas shows for it (astype(str)); an empty  *)
(* cell is read as NaN, whose text is "nan".                               *)
(***************************************************************************)
Max(a, b) == IF a >= b THEN a ELSE b

Min(a, b) == IF a <= b THEN a ELSE b

\* the textual line is empty: no cell, or one empty cell
IsBlank(line) == Len(line) = 0 \/ (Len(line) = 1 /\ line[1] = "")

\* read_csv skips blank lines (skip_blank_lines=True)
skip_blank_lines(lines) == SelectSeq(lines, LAMBDA l : ~IsBlank(l))

\* how many of header[1..i-1] equal header[i]
Dups(header, i) == Cardinality({j \in 1..(i - 1) : header[j] = header[i]})

\* pandas' column name for header cell i (1-based here, 0-based in pandas)
column_name(header, i) ==
    IF header[i] = "" THEN "Unnamed: " \o ToString(i - 1)
    ELSE IF Dups(header, i) > 0 THEN header[i] \o "." \o ToString(Dups(header, i))
    ELSE header[i]

\* pd.read_csv(csv_output): the first non-blank line is the header; a first data
\* line longer than the header makes its leading cells the index; a later line
\* longer than that is a ParserError; shorter lines are padded with NaN
read_csv(lines) ==
    LET kept == skip_blank_lines(lines) IN
    IF Len(kept) = 0 THEN [exc |-> "EmptyDataError", columns |-> <<>>, values |-> <<>>, index_cols |-> 0]
    ELSE
        LET header == kept[1]
            data == Tail(kept)
            h == Len(header)
            W == IF Len(data) = 0 THEN h ELSE Max(h, Len(data[1]))
            cell(row, k) == IF k > Len(row) \/ row[k] = "" THEN "nan" ELSE row[k]
        IN  IF \E i \in 1..Len(data) : Len(data[i]) > W
            THEN [exc |-> "ParserError", columns |-> <<>>, values |-> <<>>, index_cols |-> 0]
            ELSE [exc |-> "none",
                  columns |-> [i \in 1..h |-> column_name(header, i)],
                  values |-> [r \in 1..Len(data) |-> [j \in 1..h |-> cell(data[r], (W - h) + j)]],
                  index_cols |-> W - h]

\* len(df), len(df.columns)
len_df(df) == Len(df.values)

len_columns(df) == Len(df.columns)

\* to_excel with index=True: the frame's index is written as a first column
to_excel_with_index(df) ==
    [sheet_name |-> "Brain Volumes", header |-> <<"">> \o df.columns,
     rows |-> [r \in 1..Len(df.values) |-> <<ToString(r - 1)>> \o df.values[r]]]

\* df.to_excel(writer, sheet_name='Brain Volumes', index=False): one header row,
\* then one row per row of the frame
to_excel(df) ==
    [sheet_name |-> "Brain Volumes", header |-> df.columns, rows |-> df.values]

\* chr(65 + k) for k = 0..30: the capitals, then the five ASCII characters after Z
Ascii65 == <<"A", "B", "C", "D", "E", "F", "G", "H", "I", "J", "K", "L", "M",
             "N", "O", "P", "Q", "R", "S", "T", "U", "V", "W", "X", "Y", "Z",
             "[", "\\", "]", "^", "_">>

chr65(k) == Ascii65[k + 1]

\* column_letter = chr(65 + idx) if idx < 26 else f"A{chr(65 + idx - 26)}"
column_letter(idx) == IF idx < 26 THEN chr65(idx) ELSE "A" \o chr65(idx - 26)

\* float('nan'), the max() of an empty column; it survives max(), + 2 and min()
NaN == -1

RECURSIVE SeqMax(_)
SeqMax(s) == IF Len(s) = 0 THEN NaN ELSE IF Len(s) = 1 THEN s[1] ELSE Max(s[1], SeqMax(Tail(s)))

\* df[col].astype(str).apply(len).max()
col_text_max(df, j) == SeqMax([r \in 1..Len(df.values) |-> Len(df.values[r][j])])

\* min(max(..., len(col)) + 2, 50) for column idx (0-based)
column_width(df, idx) ==
    LET longest == col_text_max(df, idx + 1) IN
    IF longest = NaN THEN NaN
    ELSE Min(Max(longest, Len(df.columns[idx + 1])) + 2, 50)

\* worksheet.column_dimensions after the loop: letter -> width
column_dimensions(df) ==
    [l \in {column_letter(idx) : idx \in 0..(len_columns(df) - 1)} |->
        column_width(df, CHOOSE idx \in 0..(len_columns(df) - 1) :
            /\ column_letter(idx) = l
            /\ \A other \in (idx + 1)..(len_columns(df) - 1) : column_letter(other) # l)]

\* openpyxl accepts one to three letters A..Z as a column name when it saves
ValidLetters == {Ascii65[i] : i \in 1..26}

valid_column_name(l) ==
    \/ l \in ValidLetters
    \/ \E a \in ValidLetters, b \in ValidLetters : l = a \o b

\* lines 111-139 on the CSV text: the sheet written, or the exception caught
csv_to_excel(lines) ==
    LET df == read_csv(lines) IN
    IF df.exc # "none"
    THEN [exc |-> df.exc, opened |-> FALSE, sheet |-> to_excel(df), widths |-> <<>>]
    ELSE IF \E l \in DOMAIN column_dimensions(df) : ~valid_column_name(l)
    THEN [exc |-> "ValueError", opened |-> TRUE, sheet |-> to_excel(df), widths |-> <<>>]
    ELSE [exc |-> "none", opened |-> TRUE, sheet |-> to_excel(df),
          widths |-> column_dimensions(df)]

(***************************************************************************)
(* synthseg_complete.main                                                  *)
(***************************************************************************)
\* Path(__file__).parent of synthseg_complete.py (and of SlicerSynthSeg.py)
script_dir == <<"mod">>

synthseg_script ==
    Join(Join(Join(Join(script_dir, "SynthSeg"), "scripts"), "commands"), "SynthSeg_predict.py")

seg_output(output_dir) == Join(output_dir, "segmentation.nii.gz")

csv_output(output_dir) == Join(output_dir, "volumes.csv")

excel_output(output_dir) == Join(output_dir, "volumes.xlsx")

\* p and all its ancestors
Prefixes(p) == {SubSeq(p, 1, k) : k \in 1..Len(p)}

\* output_dir.mkdir(parents=True, exist_ok=True)
\* what the environment does to a directory creation
MkdirEnv == {"ok", "PermissionError"}

\* output_dir.mkdir(parents=True, exist_ok=True): the exception raised ("none" if
\* none) and the paths that exist afterwards. A regular file at the path or at one
\* of its ancestors makes it raise; so does a directory that cannot be created.
mkdir(f, reg, p, env) ==
    IF \E q \in Prefixes(p) : q \in reg
    THEN [exc |-> IF p \in reg THEN "FileExistsError" ELSE "NotADirectoryError", fs |-> f]
    ELSE IF p \notin f /\ env = "PermissionError"
    THEN [exc |-> "PermissionError", fs |-> f]
    ELSE [exc |-> "none", fs |-> f \cup Prefixes(p)]

NoXlsx == [kind |-> "none", sheet |-> <<>>, widths |-> <<>>]

\* a volumes.xlsx left by an earlier run
StaleXlsx == [kind |-> "stale", sheet |-> <<>>, widths |-> <<>>]

\* a volumes.xlsx that was opened for writing and not completed
PartialXlsx == [kind |-> "partial", sheet |-> <<>>, widths |-> <<>>]

SavedXlsx(r) == [kind |-> "sheet", sheet |-> r.sheet, widths |-> r.widths]

\* a volumes.csv left by an earlier run
StaleCsv == <<<<"stale">>>>

NotRun == Raised("not run")

CliNotRunning ==
    /\ cliPc = "none"
    /\ cliArgs = [input |-> <<>>, output |-> <<>>, keep_csv |-> FALSE]
    /\ cliExit = -1
    /\ cliOut = <<>>
    /\ cliErr = <<>>
    /\ toolkitRun = NotRun
    /\ toolkitCsv = {}
    /\ stdoutEncoding = "utf-8"

\* the encodings tried for the pipeline's stdout
StdoutEncodings == {"utf-8", "cp1252"}

\* whether print() can write the marks the messages start with (U+274C, U+2713, U+26A0)
can_encode(encoding) == encoding = "utf-8"

\* an exception nothing in main catches: traceback on stderr, exit code 1
uncaught(e, err) ==
    /\ cliPc' = "exited"
    /\ cliExit' = 1
    /\ cliOut' = cliOut
    /\ cliErr' = Append(err, "Traceback: " \o e)

\* print(message); sys.exit(code), with err on stderr so far; the print raises
\* UnicodeEncodeError when stdout cannot encode the message's mark
sys_exit(code, message, err) ==
    IF can_encode(stdoutEncoding)
    THEN /\ cliPc' = "exited"
         /\ cliExit' = code
         /\ cliOut' = Append(cliOut, message)
         /\ cliErr' = err
    ELSE uncaught("UnicodeEncodeError", err)

\* lines 43-64: validate the input, create the output folder, find the SynthSeg script
CLIStart ==
    /\ cliPc = "start"
    /\ \E env \in MkdirEnv :
        LET made == mkdir(fs, files, cliArgs.output, env) IN
        IF ~exists(fs, cliArgs.input)
        THEN /\ sys_exit(1, "Error: Input file not found", cliErr)
             /\ UNCHANGED fs
        ELSE IF made.exc # "none"
        THEN /\ uncaught(made.exc, cliErr)
             /\ UNCHANGED fs
        ELSE /\ fs' = made.fs
             /\ IF ~exists(fs', synthseg_script)
                THEN sys_exit(1, "Error: SynthSeg not found", cliErr)
                ELSE /\ cliPc' = "segment"
                     /\ UNCHANGED <<cliExit, cliOut, cliErr>>
    /\ UNCHANGED <<files, csvData, xlsxData, appVars, cliArgs, toolkitRun, toolkitCsv, stdoutEncoding>>

ToolkitOutcomes == {Exited(0), Exited(1), Raised("KeyboardInterrupt")}

\* stderr after the toolkit ran (capture_output=False: it inherits the pipeline's);
\* whether the toolkit wrote there does not depend on how it ended
ToolkitStderr(wroteErr) ==
    IF wroteErr THEN Append(cliErr, "stderr of SynthSeg_predict.py") ELSE cliErr

\* the files the toolkit subprocess left in the output folder
ToolkitWrites(wroteSeg, wroteCsv, lines) ==
    /\ fs' = fs \cup (IF wroteSeg THEN {seg_output(cliArgs.output)} ELSE {})
                \cup (IF wroteCsv THEN {csv_output(cliArgs.output)} ELSE {})
    /\ files' = files \cup (fs' \ fs)
    /\ csvData' = IF wroteCsv THEN lines ELSE csvData

\* subprocess.run without check=True: the return code is ignored
CLISegment_unchecked ==
    /\ cliPc = "segment"
    /\ \E outcome \in ToolkitOutcomes, wroteSeg \in BOOLEAN, wroteCsv \in BOOLEAN,
          wroteErr \in BOOLEAN, lines \in toolkitCsv :
        /\ toolkitRun' = outcome
        /\ ToolkitWrites(wroteSeg, wroteCsv, lines)
        /\ IF outcome.exc = "KeyboardInterrupt"
           THEN sys_exit(1, "Process interrupted by user", ToolkitStderr(wroteErr))
           ELSE /\ cliPc' = "verify"
                /\ cliErr' = ToolkitStderr(wroteErr)
                /\ UNCHANGED <<cliExit, cliOut>>
    /\ UNCHANGED <<xlsxData, appVars, cliArgs, toolkitCsv, stdoutEncoding>>

\* lines 73-94: run the segmentation toolkit and wait for it
CLISegment ==
    /\ cliPc = "segment"
    /\ \E outcome \in ToolkitOutcomes, wroteSeg \in BOOLEAN, wroteCsv \in BOOLEAN,
          wroteErr \in BOOLEAN, lines \in toolkitCsv :
        /\ toolkitRun' = outcome
        /\ ToolkitWrites(wroteSeg, wroteCsv, lines)
        /\ IF outcome.exc = "KeyboardInterrupt"
           THEN sys_exit(1, "Process interrupted by user", ToolkitStderr(wroteErr))
           ELSE IF outcome.returncode # 0
           THEN sys_exit(1, "Error: Segmentation failed with exit code", ToolkitStderr(wroteErr))
           ELSE /\ cliPc' = "verify"
                /\ cliErr' = ToolkitStderr(wroteErr)
                /\ UNCHANGED <<cliExit, cliOut>>
    /\ UNCHANGED <<xlsxData, appVars, cliArgs, toolkitCsv, stdoutEncoding>>

\* lines 96-106: verify outputs
CLIVerify ==
    /\ cliPc = "verify"
    /\ IF ~exists(fs, seg_output(cliArgs.output))
       THEN sys_exit(1, "Error: Segmentation file not created", cliErr)
       ELSE IF ~exists(fs, csv_output(cliArgs.output))
       THEN sys_exit(1, "Error: CSV file not created", cliErr)
       ELSE IF ~can_encode(stdoutEncoding)
       THEN uncaught("UnicodeEncodeError", cliErr)
       ELSE /\ cliPc' = "excel"
            /\ cliOut' = Append(cliOut, "CSV saved")
            /\ UNCHANGED <<cliExit, cliErr>>
    /\ UNCHANGED <<diskVars, appVars, cliArgs, toolkitRun, toolkitCsv, stdoutEncoding>>

\* what the environment does to step 2: pandas/openpyxl missing, or the spreadsheet
\* file cannot be opened or cannot be written
ExcelEnv == {"ok", "ImportError", "OSError on open", "OSError on write"}

\* lines 108-139: convert the CSV to a spreadsheet; every failure is a warning
CLIExcel ==
    /\ cliPc = "excel"
    /\ \E env \in ExcelEnv :
        LET r == csv_to_excel(csvData)
            opened == env \in {"ok", "OSError on write"} /\ r.opened
            saved == env = "ok" /\ r.exc = "none"
        IN  /\ fs' = IF opened THEN fs \cup {excel_output(cliArgs.output)} ELSE fs
            /\ files' = IF opened THEN files \cup {excel_output(cliArgs.output)} ELSE files
            /\ xlsxData' = IF saved THEN SavedXlsx(r)
                           ELSE IF opened THEN PartialXlsx
                           ELSE xlsxData
            /\ cliOut' = Append(cliOut,
                                IF env = "ImportError" THEN "Warning: Excel export skipped"
                                ELSE IF saved THEN "Excel saved"
                                ELSE "Warning: Excel export failed")
    /\ cliPc' = "cleanup"
    /\ UNCHANGED <<csvData, appVars, cliArgs, cliExit, cliErr, toolkitRun, toolkitCsv, stdoutEncoding>>

\* what the environment does to the removal of volumes.csv
UnlinkEnv == {"ok", "PermissionError"}

\* csv_output.unlink(), when it succeeds
unlink_csv ==
    /\ fs' = fs \ {csv_output(cliArgs.output)}
    /\ files' = files \ {csv_output(cliArgs.output)}
    /\ csvData' = <<>>

\* lines 150-165: the summary is printed and main returns
pipeline_complete(out) ==
    /\ cliPc' = "exited"
    /\ cliExit' = 0
    /\ cliOut' = out
    /\ cliErr' = cliErr

\* the CSV removed whenever --keep-csv is absent, whether or not the spreadsheet exists
CLICleanup_unguarded ==
    /\ cliPc = "cleanup"
    /\ \E env \in UnlinkEnv :
        IF ~cliArgs.keep_csv /\ exists(fs, csv_output(cliArgs.output))
        THEN IF env # "ok"
             THEN /\ uncaught(env, cliErr)
                  /\ UNCHANGED <<fs, files, csvData>>
             ELSE /\ unlink_csv
                  /\ pipeline_complete(Append(cliOut, "Removed intermediate CSV file"))
        ELSE /\ UNCHANGED <<fs, files, csvData>>
             /\ pipeline_complete(cliOut)
    /\ UNCHANGED <<xlsxData, appVars, cliArgs, toolkitRun, toolkitCsv, stdoutEncoding>>

\* lines 141-165: remove the CSV if asked and the spreadsheet exists; summary; exit 0.
\* A removal that fails is an exception main does not catch.
CLICleanup ==
    /\ cliPc = "cleanup"
    /\ \E env \in UnlinkEnv :
        IF ~cliArgs.keep_csv /\ exists(fs, csv_output(cliArgs.output))
                            /\ exists(fs, excel_output(cliArgs.output))
        THEN IF env # "ok"
             THEN /\ uncaught(env, cliErr)
                  /\ UNCHANGED <<fs, files, csvData>>
             ELSE /\ unlink_csv
                  /\ pipeline_complete(Append(cliOut, "Removed intermediate CSV file"))
        ELSE /\ UNCHANGED <<fs, files, csvData>>
             /\ pipeline_complete(IF cliArgs.keep_csv
                                  THEN Append(cliOut, "Kept CSV file as requested") ELSE cliOut)
    /\ UNCHANGED <<xlsxData, appVars, cliArgs, toolkitRun, toolkitCsv, stdoutEncoding>>

(***************************************************************************)
(* SynthSegConfig: the configuration record                                *)
(***************************************************************************)
\* the dict {} and the dict {'synthseg_path': sp, 'python_path': pp}
EmptyDict == [has |-> FALSE, synthseg_path |-> <<>>, python_path |-> <<>>]

ConfigDict(sp, pp) == [has |-> TRUE, synthseg_path |-> sp, python_path |-> pp]

\* config.json: absent, unreadable as JSON, or holding a dict
AbsentFile == [kind |-> "absent", dict |-> EmptyDict]

CorruptFile == [kind |-> "corrupt", dict |-> EmptyDict]

JsonFile(d) == [kind |-> "json", dict |-> d]

\* SynthSegConfig.load_config
load_config(file) == IF file.kind = "json" THEN file.dict ELSE EmptyDict

\* SynthSegConfig.is_configured
is_configured(f, d) ==
    d.has /\ exists(f, d.synthseg_path) /\ exists(f, d.python_path)

\* SlicerSynthSegLogic.config is None / a SynthSegConfig whose .config is d
NoneConfig == [loaded |-> FALSE, dict |-> EmptyDict]

SynthSegConfig(d) == [loaded |-> TRUE, dict |-> d]

\* SlicerSynthSegLogic.loadConfiguration
loadConfiguration(imp, file) ==
    IF imp THEN SynthSegConfig(load_config(file)) ELSE NoneConfig

\* SlicerSynthSegLogic.isConfigured
isConfigured(f, c) == c.loaded /\ is_configured(f, c.dict)

\* SlicerSynthSegLogic.getConfiguration
getConfiguration(c) == IF c.loaded THEN c.dict ELSE EmptyDict

\* what the file system does to save_config: both steps succeed; mkdir or open fails;
\* open has truncated the file and the write fails
SaveConfigEnv == {"ok", "OSError", "OSError on write"}

\* SynthSegConfig.save_config: the exception it raises ("none" when it returns True),
\* the in-memory record and config.json afterwards
save_config(c, file, synthseg_path, python_path, env) ==
    IF env = "ok"
    THEN [raised |-> "none",
          config |-> SynthSegConfig(ConfigDict(synthseg_path, python_path)),
          file |-> JsonFile(ConfigDict(synthseg_path, python_path))]
    ELSE [raised |-> "OSError",
          config |-> c,
          file |-> IF env = "OSError on write" THEN CorruptFile ELSE file]

\* save_config called as soon as the SynthSeg path is valid, before the Python check
validateAndSaveConfiguration_save_early(f, imp, c, file, synthseg_path, python_path, result, tests, env) ==
    LET c1 == IF c.loaded THEN c ELSE loadConfiguration(imp, file)
        v1 == validate_synthseg_path(f, synthseg_path)
        v2 == validate_python_env(f, python_path, result, tests)
        s == save_config(c1, file, synthseg_path, python_path, env)
    IN  IF ~c1.loaded
        THEN [ret |-> <<FALSE, "Failed to load SynthSegConfig">>, raised |-> "none",
              config |-> c1, file |-> file]
        ELSE IF ~v1[1]
        THEN [ret |-> <<FALSE, "SynthSeg path invalid: " \o v1[2]>>, raised |-> "none",
              config |-> c1, file |-> file]
        ELSE IF s.raised # "none"
        THEN [ret |-> <<>>, raised |-> s.raised, config |-> s.config, file |-> s.file]
        ELSE [ret |-> IF v2[1] THEN <<TRUE, "Configuration saved">>
                      ELSE <<FALSE, "Python environment invalid: " \o v2[2]>>,
              raised |-> "none", config |-> s.config, file |-> s.file]

\* SlicerSynthSegLogic.validateAndSaveConfiguration: what it returns (<<>> when it
\* raises), the exception it lets through, and the logic's config and config.json
\* afterwards
validateAndSaveConfiguration(f, imp, c, file, synthseg_path, python_path, result, tests, env) ==
    LET c1 == IF c.loaded THEN c ELSE loadConfiguration(imp, file)
        v1 == validate_synthseg_path(f, synthseg_path)
        v2 == validate_python_env(f, python_path, result, tests)
        s == save_config(c1, file, synthseg_path, python_path, env)
    IN  IF ~c1.loaded
        THEN [ret |-> <<FALSE, "Failed to load SynthSegConfig">>, raised |-> "none",
              config |-> c1, file |-> file]
        ELSE IF ~v1[1]
        THEN [ret |-> <<FALSE, "SynthSeg path invalid: " \o v1[2]>>, raised |-> "none",
              config |-> c1, file |-> file]
        ELSE IF ~v2[1]
        THEN [ret |-> <<FALSE, "Python environment invalid: " \o v2[2]>>, raised |-> "none",
              config |-> c1, file |-> file]
        ELSE IF s.raised # "none"
        THEN [ret |-> <<>>, raised |-> s.raised, config |-> s.config, file |-> s.file]
        ELSE [ret |-> <<TRUE, "Configuration saved">>, raised |-> "none",
              config |-> s.config, file |-> s.file]

\* SlicerSynthSegLogic.testConfiguration
testConfiguration(f, c, result, tests) ==
    IF ~isConfigured(f, c) THEN <<FALSE, "Not configured">>
    ELSE LET v1 == validate_synthseg_path(f, getConfiguration(c).synthseg_path)
             v2 == validate_python_env(f, getConfiguration(c).python_path, result, tests)
         IN  IF ~v1[1] THEN <<FALSE, "SynthSeg: " \o v1[2]>>
             ELSE IF ~v2[1] THEN <<FALSE, "Python: " \o v2[2]>>
             ELSE <<TRUE, "All checks passed!">>

(***************************************************************************)
(* SlicerSynthSegWidget and SlicerSynthSegLogic.process                    *)
(*                                                                         *)
(* The UI thread runs one handler at a time. Events are dispatched when no *)
(* handler is running, and inside slicer.app.processEvents() of            *)
(* onApplyButton; while the modal configuration dialog executes, only the  *)
(* dialog receives input.                                                  *)
(***************************************************************************)
MaxApplyDepth == 2

MaxSegmentations == 1

NoExc == [type |-> "none", message |-> "", returncode |-> 0, stdout |-> <<>>, stderr |-> <<>>]

Exc(type, message) == [type |-> type, message |-> message, returncode |-> 0, stdout |-> <<>>, stderr |-> <<>>]

NoCmd == [python |-> <<>>, script |-> <<>>, input |-> <<>>, output |-> <<>>]

NoCall == [fn |-> "none"]

\* updateConfigurationStatus
StatusText(f, c) == IF isConfigured(f, c) THEN "Configured" ELSE "Not configured"

AppNotRunning ==
    /\ importable = FALSE
    /\ configFile = AbsentFile
    /\ config = NoneConfig
    /\ inputSelected = FALSE
    /\ applyEnabled = FALSE
    /\ applyText = "Run Segmentation"
    /\ configStatus = "Not configured"
    /\ dialogState = "closed"
    /\ lastDialog = ""
    /\ applyStack = <<>>
    /\ applyDialogs = <<>>
    /\ exc = NoExc
    /\ outputSegmentation = "None"
    /\ sceneSegs = 0
    /\ cmd = NoCmd
    /\ parameterNode = "None"

\* the innermost onApplyButton call's position, "idle" when none is running
Top == IF applyStack = <<>> THEN "idle" ELSE applyStack[Len(applyStack)]

SetTop(pc) == [applyStack EXCEPT ![Len(applyStack)] = pc]

Pop == SubSeq(applyStack, 1, Len(applyStack) - 1)

\* the event loop delivers the user's input to the module panel: no handler is
\* running or one is inside slicer.app.processEvents(), and no modal window is open
EventLoop == dialogState = "closed" /\ Top \in {"idle", "pump"}

\* an event loop is running, so callbacks (node observers, scene events, enter) can
\* be delivered: as above, or the nested loop of a modal dialog or message box
Dispatching == Top \in {"idle", "pump", "box"}

Idle == dialogState = "closed" /\ Top = "idle"

\* the user changes the selection of the input volume selector (no handler is connected)
SelectInputVolume ==
    /\ EventLoop
    /\ inputSelected' = ~inputSelected
    /\ UNCHANGED <<nodeVars, diskVars, cliVars, callVars, cfgVars, procVars,
                   applyEnabled, applyText, configStatus, dialogState, lastDialog>>

\* SynthSegConfig.py is put on the module path after the logic was created
InstallConfigModule ==
    /\ Idle
    /\ ~importable
    /\ importable' = TRUE
    /\ UNCHANGED <<nodeVars, diskVars, cliVars, callVars, configFile, config, uiVars, procVars>>

\* lines 149-153 of updateGUIFromParameterNode: the button state
buttons_state(f, c, selected) == selected /\ isConfigured(f, c)

\* updateGUIFromParameterNode, called for a ModifiedEvent of the parameter node or
\* directly: it returns at line 144 while there is no parameter node
\* (_updatingGUIFromParameterNode is only set while the function itself runs)
updateGUIFromParameterNode ==
    /\ Dispatching
    /\ applyEnabled' = IF parameterNode = "None" THEN applyEnabled
                       ELSE buttons_state(fs, config, inputSelected)
    /\ UNCHANGED <<nodeVars, diskVars, cliVars, callVars, cfgVars, procVars,
                   inputSelected, applyText, configStatus, dialogState, lastDialog>>

\* setParameterNode(inputParameterNode), lines 125-138: what it leaves in
\* _parameterNode and in the button. SlicerSynthSegLogic defines no
\* setDefaultParameters, so for a node line 130 raises AttributeError before anything
\* is assigned (raised); for None the node is dropped and the refresh of line 138
\* returns at line 144
setParameterNode(inputParameterNode, selected) ==
    IF inputParameterNode # "None"
    THEN [raised |-> TRUE, parameterNode |-> parameterNode, applyEnabled |-> applyEnabled]
    ELSE [raised |-> FALSE, parameterNode |-> "None", applyEnabled |-> applyEnabled]

\* enter(): initializeParameterNode -> setParameterNode(self.logic.getParameterNode())
enter ==
    /\ Dispatching
    /\ LET r == setParameterNode("node", inputSelected) IN
        /\ parameterNode' = r.parameterNode
        /\ applyEnabled' = r.applyEnabled
    /\ UNCHANGED <<diskVars, cliVars, callVars, cfgVars, procVars,
                   inputSelected, applyText, configStatus, dialogState, lastDialog>>

\* slicer.mrmlScene.Clear(), as SlicerSynthSegTest.setUp calls it (line 454), or the
\* scene being closed: onSceneStartClose (setParameterNode(None)), every node
\* leaves the scene, then onSceneEndClose (initializeParameterNode if the module is
\* entered; isEntered is the host's)
mrmlSceneClear ==
    /\ Dispatching
    /\ \E isEntered \in BOOLEAN :
        LET r == setParameterNode("node", FALSE) IN
        /\ parameterNode' = IF isEntered /\ ~r.raised THEN "node" ELSE "None"
        /\ applyEnabled' = IF isEntered THEN r.applyEnabled ELSE applyEnabled
    /\ inputSelected' = FALSE
    /\ sceneSegs' = 0
    /\ UNCHANGED <<diskVars, cliVars, callVars, cfgVars,
                   applyStack, applyDialogs, exc, outputSegmentation, cmd,
                   applyText, configStatus, dialogState, lastDialog>>

\* onConfigureButton up to dialog.exec_()
onConfigureButton ==
    /\ EventLoop
    /\ dialogState' = "exec"
    /\ UNCHANGED <<nodeVars, diskVars, cliVars, callVars, cfgVars, procVars,
                   inputSelected, applyEnabled, applyText, configStatus, lastDialog>>

SynthsegInputs == {<<>>, <<"opt">>}

PythonInputs == {<<>>, <<"py1">>}

AllTests(outcome) == [i \in 1..Len(required_packages) |-> outcome]

\* the subprocess outcomes of one validate_python_env call tried here, <<result, tests>>:
\* the combined import succeeds; it fails and every package fails, none fails, the
\* first check times out, or the third times out after one package was found missing;
\* the combined import times out or cannot be started
PythonRuns == {<<Exited(0), AllTests(Exited(0))>>,
               <<Exited(1), AllTests(Exited(1))>>,
               <<Exited(1), AllTests(Exited(0))>>,
               <<Exited(1), AllTests(Raised("TimeoutExpired"))>>,
               <<Exited(1), <<Exited(1), Exited(0), Raised("TimeoutExpired"),
                              Exited(0), Exited(0)>>>>,
               <<Raised("TimeoutExpired"), AllTests(Exited(0))>>,
               <<Raised("OSError"), AllTests(Exited(0))>>}

\* the interpreter outcomes one save attempt can meet: validate_python_env starts the
\* interpreter only when the logic has a SynthSegConfig, the SynthSeg path was accepted
\* and python_path exists; otherwise none is started
PythonRunsAt(f, imp, c, synthseg_path, python_path) ==
    IF (c.loaded \/ imp) /\ validate_synthseg_path(f, synthseg_path)[1] /\ exists(f, python_path)
    THEN PythonRuns
    ELSE {<<NotRun, AllTests(NotRun)>>}

\* ConfigurationDialog.onSave, a slot run by the loop of dialog.exec_(): a warning box
\* for an empty field; otherwise accept() when the configuration was saved, an error
\* box when it was refused, and neither when save_config raised (the slot ends there
\* and the dialog stays open)
onSave ==
    /\ dialogState = "exec"
    /\ \E synthseg_path \in SynthsegInputs, python_path \in PythonInputs :
        IF synthseg_path = <<>> \/ python_path = <<>>
        THEN /\ lastDialog' = "warning"
             /\ UNCHANGED <<callVars, cfgVars, dialogState>>
        ELSE \E run \in PythonRunsAt(fs, importable, config, synthseg_path, python_path),
                env \in SaveConfigEnv :
             LET r == validateAndSaveConfiguration(fs, importable, config, configFile,
                                                   synthseg_path, python_path, run[1], run[2], env)
             IN  /\ call' = [fn |-> "validateAndSaveConfiguration", synthseg_path |-> synthseg_path,
                             python_path |-> python_path, result |-> run[1], tests |-> run[2],
                             raised |-> r.raised]
                 /\ ret' = r.ret
                 /\ config' = r.config
                 /\ configFile' = r.file
                 /\ dialogState' = IF r.raised = "none" /\ r.ret[1] THEN "accepted" ELSE "exec"
                 /\ lastDialog' = IF r.raised = "none" /\ ~r.ret[1] THEN "error" ELSE lastDialog
                 /\ UNCHANGED importable
    /\ UNCHANGED <<nodeVars, diskVars, cliVars, procVars, inputSelected, applyEnabled, applyText,
                   configStatus>>

\* onConfigureButton after dialog.exec_() returned true: the status label is refreshed
\* and the information box shown
onConfigureButtonAccepted ==
    /\ dialogState = "accepted"
    /\ Top \in {"idle", "pump"}
    /\ dialogState' = "closed"
    /\ configStatus' = StatusText(fs, config)
    /\ lastDialog' = "info"
    /\ UNCHANGED <<nodeVars, diskVars, cliVars, callVars, cfgVars, procVars,
                   inputSelected, applyEnabled, applyText>>

\* Cancel in the configuration dialog
onCancel ==
    /\ dialogState = "exec"
    /\ dialogState' = "closed"
    /\ UNCHANGED <<nodeVars, diskVars, cliVars, callVars, cfgVars, procVars,
                   inputSelected, applyEnabled, applyText, configStatus, lastDialog>>

\* onTestConfiguration
onTestConfiguration ==
    /\ EventLoop
    /\ \E run \in PythonRuns :
        lastDialog' =
            IF ~isConfigured(fs, config) THEN "error"
            ELSE IF testConfiguration(fs, config, run[1], run[2])[1] THEN "info"
            ELSE "error"
    /\ UNCHANGED <<nodeVars, diskVars, cliVars, callVars, cfgVars, procVars,
                   inputSelected, applyEnabled, applyText, configStatus, dialogState>>

\* onApplyButton without line 207: the button is left enabled during processing
onApplyButton_not_disabled ==
    /\ EventLoop
    /\ applyEnabled
    /\ Len(applyStack) < MaxApplyDepth
    /\ sceneSegs < MaxSegmentations
    /\ IF ~inputSelected \/ ~isConfigured(fs, config)
       THEN /\ applyDialogs' = Append(applyDialogs, <<"error">>)
            /\ lastDialog' = "error"
            /\ applyStack' = Append(applyStack, "box")
            /\ UNCHANGED <<applyEnabled, applyText>>
       ELSE /\ applyText' = "Processing..."
            /\ applyStack' = Append(applyStack, "pump")
            /\ applyDialogs' = Append(applyDialogs, <<>>)
            /\ UNCHANGED <<applyEnabled, lastDialog>>
    /\ UNCHANGED <<nodeVars, diskVars, cliVars, callVars, cfgVars, inputSelected, configStatus,
                   dialogState, exc, outputSegmentation, sceneSegs, cmd>>

\* onApplyButton, lines 196-209: a click on the enabled button, up to processEvents();
\* when a check raises, up to the error box of the except clause (line 218)
onApplyButton ==
    /\ EventLoop
    /\ applyEnabled
    /\ Len(applyStack) < MaxApplyDepth
    /\ sceneSegs < MaxSegmentations
    /\ IF ~inputSelected \/ ~isConfigured(fs, config)
       THEN /\ applyDialogs' = Append(applyDialogs, <<"error">>)
            /\ lastDialog' = "error"
            /\ applyStack' = Append(applyStack, "box")
            /\ UNCHANGED <<applyEnabled, applyText>>
       ELSE /\ applyEnabled' = FALSE
            /\ applyText' = "Processing..."
            /\ applyStack' = Append(applyStack, "pump")
            /\ applyDialogs' = Append(applyDialogs, <<>>)
            /\ UNCHANGED lastDialog
    /\ UNCHANGED <<nodeVars, diskVars, cliVars, callVars, cfgVars, inputSelected, configStatus,
                   dialogState, exc, outputSegmentation, sceneSegs, cmd>>

tmpDir == <<"tmp">>

inputPath == Join(tmpDir, "input.nii.gz")

scriptPath == Join(script_dir, "synthseg_complete.py")

\* slicer.util.saveNode: writes the file, fails returning False, or raises
SaveOutcomes == {"saved", "not saved", "raised"}

\* subprocess.run: the interpreter starts, or the file at python_path cannot be executed
LaunchOutcomes == {"started", "PermissionError"}

\* process(), lines 401-426: create the temporary directory, save the input volume,
\* start the pipeline subprocess and block on it
processStart ==
    /\ Top = "pump"
    /\ dialogState = "closed"
    /\ \E save \in SaveOutcomes, launch \in LaunchOutcomes :
        LET c == getConfiguration(config) IN
        /\ fs' = fs \cup {tmpDir} \cup (IF save = "saved" THEN {inputPath} ELSE {})
        /\ files' = files \cup (IF save = "saved" THEN {inputPath} ELSE {})
        /\ outputSegmentation' = "None"
        /\ IF save = "raised" \/ ~c.has \/ ~exists(fs, c.python_path) \/ launch # "started"
           THEN /\ exc' = IF save = "raised" THEN Exc("RuntimeError", "saveNode failed")
                          ELSE IF ~c.has THEN Exc("KeyError", "python_path")
                          ELSE IF ~exists(fs, c.python_path)
                          THEN Exc("FileNotFoundError", "python_path")
                          ELSE Exc("PermissionError", "python_path")
                /\ applyStack' = SetTop("cleanup")
                /\ UNCHANGED <<cliVars, cmd>>
           ELSE /\ exc' = NoExc
                /\ cmd' = [python |-> c.python_path, script |-> scriptPath,
                           input |-> inputPath, output |-> tmpDir]
                /\ cliPc' = "start"
                /\ cliArgs' = [input |-> inputPath, output |-> tmpDir, keep_csv |-> FALSE]
                /\ cliExit' = -1
                /\ cliOut' = <<>>
                /\ cliErr' = <<>>
                /\ toolkitRun' = NotRun
                /\ UNCHANGED <<toolkitCsv, stdoutEncoding>>
                /\ applyStack' = SetTop("subprocess")
    /\ UNCHANGED <<nodeVars, csvData, xlsxData, callVars, cfgVars, uiVars, applyDialogs, sceneSegs>>

\* slicer.util.loadSegmentation: adds a node to the scene, or raises
LoadOutcomes == {"loaded", "raised"}

\* process() without the return code check: the result is loaded whenever the file exists
processResult_ignores_returncode ==
    /\ Top = "subprocess"
    /\ cliPc = "exited"
    /\ \E load \in LoadOutcomes :
        IF ~exists(fs, seg_output(tmpDir))
        THEN /\ exc' = Exc("RuntimeError", "Segmentation file not created")
             /\ UNCHANGED <<outputSegmentation, sceneSegs>>
        ELSE IF load = "raised"
        THEN /\ exc' = Exc("RuntimeError", "Failed to load segmentation")
             /\ UNCHANGED <<outputSegmentation, sceneSegs>>
        ELSE /\ outputSegmentation' = "vtkMRMLSegmentationNode"
             /\ sceneSegs' = sceneSegs + 1
             /\ UNCHANGED exc
    /\ applyStack' = SetTop("cleanup")
    /\ cliPc' = "none"
    /\ cliArgs' = [input |-> <<>>, output |-> <<>>, keep_csv |-> FALSE]
    /\ cliExit' = -1
    /\ cliOut' = <<>>
    /\ cliErr' = <<>>
    /\ toolkitRun' = NotRun
    /\ UNCHANGED <<nodeVars, diskVars, toolkitCsv, stdoutEncoding, callVars, cfgVars, uiVars, applyDialogs, cmd>>

\* process(), lines 426-436: the subprocess has exited; check it and load the result
processResult ==
    /\ Top = "subprocess"
    /\ cliPc = "exited"
    /\ \E load \in LoadOutcomes :
        IF cliExit # 0
        THEN /\ exc' = [type |-> "RuntimeError", message |-> "SynthSeg processing failed with exit code",
                        returncode |-> cliExit, stdout |-> cliOut, stderr |-> cliErr]
             /\ UNCHANGED <<outputSegmentation, sceneSegs>>
        ELSE IF ~exists(fs, seg_output(tmpDir))
        THEN /\ exc' = Exc("RuntimeError", "Segmentation file not created")
             /\ UNCHANGED <<outputSegmentation, sceneSegs>>
        ELSE IF load = "raised"
        THEN /\ exc' = Exc("RuntimeError", "Failed to load segmentation")
             /\ UNCHANGED <<outputSegmentation, sceneSegs>>
        ELSE /\ outputSegmentation' = "vtkMRMLSegmentationNode"
             /\ sceneSegs' = sceneSegs + 1
             /\ UNCHANGED exc
    /\ applyStack' = SetTop("cleanup")
    /\ cliPc' = "none"
    /\ cliArgs' = [input |-> <<>>, output |-> <<>>, keep_csv |-> FALSE]
    /\ cliExit' = -1
    /\ cliOut' = <<>>
    /\ cliErr' = <<>>
    /\ toolkitRun' = NotRun
    /\ UNCHANGED <<nodeVars, diskVars, toolkitCsv, stdoutEncoding, callVars, cfgVars, uiVars, applyDialogs, cmd>>

\* the paths at or below directory d
Under(f, d) == {p \in f : Len(p) >= Len(d) /\ SubSeq(p, 1, Len(d)) = d}

\* leaving the with block only removes the directory when no exception is pending
processCleanup_on_success_only ==
    /\ Top = "cleanup"
    /\ IF exc = NoExc
       THEN /\ fs' = fs \ Under(fs, tmpDir)
            /\ files' = files \ Under(fs, tmpDir)
            /\ csvData' = <<>>
            /\ xlsxData' = NoXlsx
       ELSE UNCHANGED diskVars
    /\ applyStack' = SetTop("finish")
    /\ UNCHANGED <<nodeVars, cliVars, callVars, cfgVars, uiVars, applyDialogs, exc,
                   outputSegmentation, sceneSegs, cmd>>

\* process(), line 406: leaving 'with tempfile.TemporaryDirectory()', by return or
\* by exception, removes the directory and everything in it
processCleanup ==
    /\ Top = "cleanup"
    /\ fs' = fs \ Under(fs, tmpDir)
    /\ files' = files \ Under(fs, tmpDir)
    /\ csvData' = <<>>
    /\ xlsxData' = NoXlsx
    /\ applyStack' = SetTop("finish")
    /\ UNCHANGED <<nodeVars, cliVars, callVars, cfgVars, uiVars, applyDialogs, exc,
                   outputSegmentation, sceneSegs, cmd>>

\* onApplyButton, line 215 or 218: process() returned or raised; the success or the
\* error message box is shown and waits for the user
onApplyFinish ==
    /\ Top = "finish"
    /\ applyDialogs' = [applyDialogs EXCEPT ![Len(applyDialogs)] =
                              Append(@, IF exc = NoExc THEN "info" ELSE "error")]
    /\ lastDialog' = IF exc = NoExc THEN "info" ELSE "error"
    /\ applyStack' = SetTop("box")
    /\ UNCHANGED <<nodeVars, diskVars, cliVars, callVars, cfgVars, inputSelected,
                   applyEnabled, applyText, configStatus, dialogState, exc,
                   outputSegmentation, sceneSegs, cmd>>

\* onApplyButton, lines 219-223: the message box is closed; the finally clause
\* restores the button and the handler returns
onApplyFinally ==
    /\ Top = "box"
    /\ applyEnabled' = TRUE
    /\ applyText' = "Run Segmentation"
    /\ applyStack' = Pop
    /\ applyDialogs' = SubSeq(applyDialogs, 1, Len(applyDialogs) - 1)
    /\ exc' = NoExc
    /\ outputSegmentation' = "None"
    /\ cmd' = NoCmd
    /\ UNCHANGED <<nodeVars, diskVars, cliVars, callVars, cfgVars, inputSelected,
                   configStatus, dialogState, lastDialog, sceneSegs>>

(***************************************************************************)
(* SpecValidate: the two validators applied to drawn inputs                *)
(***************************************************************************)
optDir == <<"opt">>

python1 == <<"py1">>

\* the paths validate_synthseg_path looks at under an installation directory
InstallPaths(path) ==
    {path, Join(path, "SynthSeg"), predict_script(path), model_dir(path), model_v1(path)}

NoTests == [i \in 1..Len(required_packages) |-> Exited(0)]

InitValidate ==
    /\ fs \in {f \in SUBSET (InstallPaths(optDir) \cup {python1}) : Closed(f)}
    /\ files = fs \cap {predict_script(optDir), model_v1(optDir), python1}
    /\ \/ call = [fn |-> "validate_synthseg_path", path |-> optDir,
                  result |-> Exited(0), tests |-> NoTests]
       \/ \E r \in RunOutcomes, t \in [1..Len(required_packages) -> RunOutcomes] :
              call = [fn |-> "validate_python_env", path |-> python1,
                      result |-> r, tests |-> t]
    /\ ret = <<>>
    /\ csvData = <<>>
    /\ xlsxData = NoXlsx
    /\ CliNotRunning
    /\ AppNotRunning

CallValidateSynthsegPath ==
    /\ ret = <<>>
    /\ call.fn = "validate_synthseg_path"
    /\ ret' = validate_synthseg_path(fs, call.path)
    /\ UNCHANGED <<nodeVars, diskVars, call, cliVars, cfgVars, uiVars, procVars>>

CallValidatePythonEnv ==
    /\ ret = <<>>
    /\ call.fn = "validate_python_env"
    /\ ret' = validate_python_env(fs, call.path, call.result, call.tests)
    /\ UNCHANGED <<nodeVars, diskVars, call, cliVars, cfgVars, uiVars, procVars>>

NextValidate == CallValidateSynthsegPath \/ CallValidatePythonEnv

SpecValidate == InitValidate /\ [][NextValidate]_vars

(***************************************************************************)
(* SpecExcel: the CSV-to-spreadsheet step applied to drawn CSV files       *)
(***************************************************************************)
MaxCsvLines == 3

MaxCsvFields == 2

Cells == {"", "vol"}

SeqsUpTo(S, n) == UNION {[1..k -> S] : k \in 0..n}

CsvFiles == SeqsUpTo(SeqsUpTo(Cells, MaxCsvFields), MaxCsvLines)

\* the widest table tried: one column more than two letters' worth (A..Z, AA..AZ)
MaxWideColumns == 53

\* a header of n cells and one record of n cells
WideCsv(n) == <<[i \in 1..n |-> "vol"], [i \in 1..n |-> "vol"]>>

\* a cell text longer than the widest column the code sets
LongCell == "Left-Cerebral-White-Matter-and-Right-Cerebral-White-Matter-total"

\* tables past the single letters and past AZ, and one with a long cell
WideCsvs == {WideCsv(MaxWideColumns - 26), WideCsv(MaxWideColumns),
             <<<<"subject", "vol">>, <<"t1", LongCell>>>>}

InitExcel ==
    /\ fs = {}
    /\ files = {}
    /\ \E lines \in CsvFiles \cup WideCsvs : call = [fn |-> "csv_to_excel", csv |-> lines]
    /\ ret = <<>>
    /\ csvData = <<>>
    /\ xlsxData = NoXlsx
    /\ CliNotRunning
    /\ AppNotRunning

CallCsvToExcel ==
    /\ ret = <<>>
    /\ call.fn = "csv_to_excel"
    /\ ret' = csv_to_excel(call.csv)
    /\ UNCHANGED <<nodeVars, diskVars, call, cliVars, cfgVars, uiVars, procVars>>

NextExcel == CallCsvToExcel

SpecExcel == InitExcel /\ [][NextExcel]_vars

(***************************************************************************)
(* SpecCLI: the pipeline run from the command line                         *)
(***************************************************************************)
inputFile == <<"t1.nii.gz">>

outDir == <<"out">>

\* CSV texts a toolkit run may leave: empty, header only, a header and one record,
\* a header and one record of MaxWideColumns columns
SampleCsvs == {<<>>, <<<<"subject", "vol">>>>, <<<<"subject", "vol">>, <<"t1", "vol">>>>,
               WideCsv(MaxWideColumns)}

InitCLI ==
    /\ fs \in {f \in SUBSET ({inputFile} \cup Prefixes(synthseg_script) \cup Prefixes(outDir)
                             \cup {seg_output(outDir), csv_output(outDir), excel_output(outDir)}) :
                 Closed(f) /\ script_dir \in f}
    /\ \E outIsFile \in BOOLEAN :
          /\ outIsFile => (outDir \in fs /\ Under(fs, outDir) = {outDir})
          /\ files = (fs \cap {inputFile, synthseg_script, seg_output(outDir),
                               csv_output(outDir), excel_output(outDir)})
                     \cup (IF outIsFile THEN {outDir} ELSE {})
    /\ csvData = IF csv_output(outDir) \in fs THEN StaleCsv ELSE <<>>
    /\ xlsxData = IF excel_output(outDir) \in fs THEN StaleXlsx ELSE NoXlsx
    /\ call = NoCall
    /\ ret = <<>>
    /\ cliPc = "start"
    /\ \E keep \in BOOLEAN : cliArgs = [input |-> inputFile, output |-> outDir, keep_csv |-> keep]
    /\ cliExit = -1
    /\ cliOut = <<>>
    /\ cliErr = <<>>
    /\ toolkitRun = NotRun
    /\ toolkitCsv = SampleCsvs
    /\ stdoutEncoding \in StdoutEncodings
    /\ AppNotRunning

NextCLI == CLIStart \/ CLISegment \/ CLIVerify \/ CLIExcel \/ CLICleanup

SpecCLI == InitCLI /\ [][NextCLI]_vars

(***************************************************************************)
(* Spec: the module widget in a running Slicer                             *)
(***************************************************************************)
\* the one CSV text the toolkit writes here: a header and one record
VolumesCsv == <<<<"subject", "vol">>, <<"t1", "vol">>>>

\* the state when setup() has run: initializeParameterNode (line 83) stops setup() at
\* line 130 with AttributeError, before the button state and the status label are
\* computed, so there is no parameter node and both keep what the .ui file gives them
Init ==
    /\ \E install \in {{}, InstallPaths(optDir) \ {model_v1(optDir)}, InstallPaths(optDir)},
          bundled \in {{}, Prefixes(synthseg_script)},
          pythons \in SUBSET {python1} :
          fs = {script_dir, scriptPath} \cup install \cup bundled \cup pythons
    /\ files = fs \cap {scriptPath, synthseg_script, predict_script(optDir),
                         model_v1(optDir), python1}
    /\ csvData = <<>>
    /\ xlsxData = NoXlsx
    /\ call = NoCall
    /\ ret = <<>>
    /\ cliPc = "none"
    /\ cliArgs = [input |-> <<>>, output |-> <<>>, keep_csv |-> FALSE]
    /\ cliExit = -1
    /\ cliOut = <<>>
    /\ cliErr = <<>>
    /\ toolkitRun = NotRun
    /\ toolkitCsv = {VolumesCsv}
    /\ stdoutEncoding \in StdoutEncodings
    /\ importable \in BOOLEAN
    /\ configFile \in {AbsentFile, CorruptFile, JsonFile(ConfigDict(optDir, python1))}
    /\ config = loadConfiguration(importable, configFile)
    /\ inputSelected \in BOOLEAN
    /\ parameterNode = "None"
    /\ applyEnabled \in BOOLEAN
    /\ configStatus = ""
    /\ applyText = "Run Segmentation"
    /\ dialogState = "closed"
    /\ lastDialog = ""
    /\ applyStack = <<>>
    /\ applyDialogs = <<>>
    /\ exc = NoExc
    /\ outputSegmentation = "None"
    /\ sceneSegs = 0
    /\ cmd = NoCmd

Next ==
    \/ SelectInputVolume
    \/ InstallConfigModule
    \/ updateGUIFromParameterNode
    \/ enter
    \/ mrmlSceneClear
    \/ onConfigureButton
    \/ onSave
    \/ onConfigureButtonAccepted
    \/ onCancel
    \/ onTestConfiguration
    \/ onApplyButton
    \/ processStart
    \/ CLIStart
    \/ CLISegment
    \/ CLIVerify
    \/ CLIExcel
    \/ CLICleanup
    \/ processResult
    \/ processCleanup
    \/ onApplyFinish
    \/ onApplyFinally

Spec == Init /\ [][Next]_vars

(***************************************************************************)
(* Claims                                                                  *)
(***************************************************************************)
\* the four items validate_synthseg_path requires, in the order it checks them
RequiredItems(path) == <<path, predict_script(path), model_dir(path), model_v1(path)>>

ItemMessages == <<"Directory does not exist", "SynthSeg/predict_synthseg.py not found",
                  "models directory not found", "synthseg_1.0.h5 model not found in models/">>

FirstMissing(f, path) ==
    CHOOSE i \in 1..4 : /\ RequiredItems(path)[i] \notin f
                        /\ \A j \in 1..(i - 1) : RequiredItems(path)[j] \in f

\* C6: validate_synthseg_path returns valid exactly when the directory, the predict
\* script, the models directory and the model file all exist, and otherwise returns
\* invalid with the message of the first missing item in that order.
C6_ValidIffAllExist ==
    (ret # <<>> /\ call.fn = "validate_synthseg_path") =>
        LET allExist == \A i \in 1..4 : RequiredItems(call.path)[i] \in fs IN
        /\ ret[1] = allExist
        /\ ~allExist => ret[2] = ItemMessages[FirstMissing(fs, call.path)]

\* C6 witness: the directory exists, the predict script and the models directory are
\* both missing, and the call has returned
C6_Witness ==
    /\ ret # <<>>
    /\ call.fn = "validate_synthseg_path"
    /\ call.path \in fs
    /\ predict_script(call.path) \notin fs
    /\ model_dir(call.path) \notin fs
    /\ ret[1] = FALSE

\* the required packages whose own import check exits non-zero
FailingPackages(tests) ==
    SelectSeq(required_packages,
              LAMBDA p : \E i \in 1..Len(required_packages) :
                            /\ required_packages[i] = p
                            /\ tests[i].exc = "none"
                            /\ tests[i].returncode # 0)

\* C7 (as claimed): validate_python_env returns valid exactly when the executable
\* exists and the combined import exits 0; whenever the combined import exits
\* non-zero it returns invalid with a 'Missing packages' message naming every
\* package whose own import check fails, and that list is not empty.
C7_MissingPackagesNamed ==
    (ret # <<>> /\ call.fn = "validate_python_env") =>
        /\ ret[1] = (call.path \in fs /\ call.result = Exited(0))
        /\ (call.path \in fs /\ call.result.exc = "none" /\ call.result.returncode # 0) =>
              /\ ret = <<FALSE, "Missing packages: " \o join(FailingPackages(call.tests))>>
              /\ Len(FailingPackages(call.tests)) >= 1

\* number of CSV records after the header, and number of header fields, of a CSV text
NonBlankLines(lines) == {i \in 1..Len(lines) : ~IsBlank(lines[i])}

CsvRecords(lines) == Cardinality(NonBlankLines(lines)) - 1

CsvColumns(lines) ==
    Len(lines[CHOOSE i \in NonBlankLines(lines) : \A j \in NonBlankLines(lines) : i <= j])

\* C9: when the CSV-to-spreadsheet step succeeds, the sheet 'Brain Volumes' holds one
\* header row and one data row per CSV record, and as many columns as the CSV header
\* has fields (no index column is added).
C9_RowAndColumnCounts ==
    (ret # <<>> /\ call.fn = "csv_to_excel" /\ ret.exc = "none") =>
        /\ ret.sheet.sheet_name = "Brain Volumes"
        /\ Len(ret.sheet.rows) = CsvRecords(call.csv)
        /\ Len(ret.sheet.header) = CsvColumns(call.csv)
        /\ \A r \in 1..Len(ret.sheet.rows) : Len(ret.sheet.rows[r]) = CsvColumns(call.csv)

\* C9 witness: a CSV of a header and two records of two fields each was converted
C9_Witness ==
    /\ ret # <<>>
    /\ call.fn = "csv_to_excel"
    /\ ret.exc = "none"
    /\ Len(call.csv) = 3
    /\ \A i \in 1..3 : Len(call.csv[i]) = 2
    /\ Len(ret.sheet.rows) = 2

\* C1: the pipeline exits with code 1 whenever the input path does not exist, the
\* SynthSeg predict script is not found or the segmentation subprocess returns a
\* non-zero exit code; it exits 0 only when none of these happened and the
\* segmentation subprocess ran and succeeded.
C1_ExitCodes ==
    cliPc = "exited" =>
        /\ ( \/ ~exists(fs, cliArgs.input)
             \/ ~exists(fs, synthseg_script)
             \/ (toolkitRun.exc = "none" /\ toolkitRun.returncode # 0) ) => cliExit = 1
        /\ cliExit = 0 => /\ exists(fs, cliArgs.input)
                          /\ exists(fs, synthseg_script)
                          /\ toolkitRun = Exited(0)

\* C1 witness: the segmentation subprocess returned non-zero and the pipeline exited 1
C1_Witness ==
    /\ cliPc = "exited"
    /\ cliExit = 1
    /\ toolkitRun = Exited(1)

Printed(message) == \E i \in 1..Len(cliOut) : cliOut[i] = message

\* C2 (as claimed): every run that exits 0 leaves segmentation.nii.gz and volumes.xlsx
\* in the output folder; volumes.csv is present if --keep-csv was given and deleted
\* if it was not.
C2_AllArtifacts ==
    (cliPc = "exited" /\ cliExit = 0) =>
        /\ exists(fs, seg_output(cliArgs.output))
        /\ exists(fs, excel_output(cliArgs.output))
        /\ exists(fs, csv_output(cliArgs.output)) = cliArgs.keep_csv

\* C2 (amended): every run that exits 0 leaves segmentation.nii.gz; volumes.xlsx is
\* present, holding the converted sheet, whenever the spreadsheet step succeeded;
\* volumes.csv is present exactly when --keep-csv was given or no volumes.xlsx exists.
C2_ArtifactsAfterExit0 ==
    (cliPc = "exited" /\ cliExit = 0) =>
        /\ exists(fs, seg_output(cliArgs.output))
        /\ Printed("Excel saved") => /\ exists(fs, excel_output(cliArgs.output))
                                     /\ xlsxData.kind = "sheet"
        /\ exists(fs, csv_output(cliArgs.output)) =
              (cliArgs.keep_csv \/ ~exists(fs, excel_output(cliArgs.output)))

\* C2 witness: a run without --keep-csv saved the spreadsheet, removed the CSV and exited 0
C2_Witness ==
    /\ cliPc = "exited"
    /\ cliExit = 0
    /\ ~cliArgs.keep_csv
    /\ Printed("Excel saved")
    /\ ~exists(fs, csv_output(cliArgs.output))

SegmentationNode == "vtkMRMLSegmentationNode"

\* the step in which process() sees the pipeline subprocess exit
SubprocessReturned == Top = "subprocess" /\ Top' = "cleanup"

\* C3: process raises a RuntimeError carrying the captured stdout and stderr whenever
\* the pipeline subprocess exits non-zero, and a RuntimeError when it exits 0 but
\* segmentation.nii.gz is absent, loading nothing into the scene in both cases; a
\* segmentation node is loaded only when the exit code is 0 and the file exists.
C3_RaisesOrLoads ==
    [][ /\ SubprocessReturned =>
              /\ cliExit # 0 =>
                    /\ exc' = [type |-> "RuntimeError",
                               message |-> "SynthSeg processing failed with exit code",
                               returncode |-> cliExit, stdout |-> cliOut, stderr |-> cliErr]
                    /\ sceneSegs' = sceneSegs
                    /\ outputSegmentation' = "None"
              /\ (cliExit = 0 /\ ~exists(fs, seg_output(tmpDir))) =>
                    /\ exc'.type = "RuntimeError"
                    /\ sceneSegs' = sceneSegs
                    /\ outputSegmentation' = "None"
        /\ (sceneSegs' > sceneSegs \/ (outputSegmentation' # outputSegmentation
                                        /\ outputSegmentation' # "None")) =>
              /\ SubprocessReturned
              /\ cliExit = 0
              /\ exists(fs, seg_output(tmpDir))
              /\ exc' = NoExc
              /\ outputSegmentation' = SegmentationNode
              /\ sceneSegs' = sceneSegs + 1
      ]_vars

\* C3 witness: the pipeline exited 1 after printing, and process() holds the
\* RuntimeError with that output while nothing was loaded
C3_Witness ==
    /\ Top = "cleanup"
    /\ exc.type = "RuntimeError"
    /\ exc.returncode = 1
    /\ exc.stdout # <<>>
    /\ outputSegmentation = "None"
    /\ sceneSegs = 0

TmpGone(f) == Under(f, tmpDir) = {}

\* C4: once process() has finished, by return or by exception, the temporary
\* directory and every file in it are gone; a segmentation is loaded while its file
\* is still in the directory.
C4_TempDirRemoved ==
    [][ /\ (Top' \in {"finish", "idle"} /\ Top # "idle") =>
              /\ TmpGone(fs')
              /\ csvData' = <<>>
              /\ xlsxData'.kind = "none"
        /\ sceneSegs' > sceneSegs =>
              /\ exists(fs, seg_output(tmpDir))
              /\ exists(fs', seg_output(tmpDir))
              /\ Top' = "cleanup"
      ]_vars

\* C4 witness: process() ended with an exception after the pipeline had written into
\* the temporary directory, and the directory is gone
C4_Witness ==
    /\ Top = "finish"
    /\ exc.type = "RuntimeError"
    /\ exc.returncode = 1
    /\ TmpGone(fs)

\* a step of ConfigurationDialog.onSave that reached validateAndSaveConfiguration
SaveAttempt ==
    /\ dialogState = "exec"
    /\ call'.fn = "validateAndSaveConfiguration"
    /\ (call' # call \/ ret' # ret \/ config' # config \/ configFile' # configFile)

\* C5: validateAndSaveConfiguration writes config.json and the in-memory record only
\* when validate_synthseg_path and validate_python_env both succeed, and both stored
\* paths then exist on disk; when a validation fails it returns (False, message) and
\* the stored file and the in-memory record are unchanged. Nothing else writes them.
\* (When both succeed and save_config raises, nothing is returned, the record is
\* unchanged and the file is untouched or left truncated.)
C5_SaveOnlyWhenValid ==
    [][ /\ (configFile' # configFile \/ config'.dict # config.dict) => SaveAttempt
        /\ SaveAttempt =>
              LET sp == call'.synthseg_path
                  pp == call'.python_path
                  bothValid == /\ validate_synthseg_path(fs, sp)[1]
                               /\ validate_python_env(fs, pp, call'.result, call'.tests)[1]
                  recordKept == \/ config'.dict = getConfiguration(config)
                                \/ (~config.loaded /\ config'.dict = load_config(configFile))
              IN  /\ (configFile' # configFile \/ ~recordKept) =>
                        /\ bothValid
                        /\ exists(fs, sp) /\ exists(fs, pp)
                  /\ (call'.raised = "none") = (ret' # <<>>)
                  /\ ~(bothValid /\ config'.loaded) =>
                        /\ ret' # <<>> /\ ret'[1] = FALSE /\ Len(ret'[2]) > 0
                        /\ configFile' = configFile
                        /\ recordKept
                  /\ (bothValid /\ config'.loaded /\ ret' # <<>>) =>
                        /\ ret' = <<TRUE, "Configuration saved">>
                        /\ configFile' = JsonFile(ConfigDict(sp, pp))
                        /\ config' = SynthSegConfig(ConfigDict(sp, pp))
                        /\ is_configured(fs, config'.dict)
                  /\ ret' = <<>> =>
                        /\ configFile' \in {configFile, CorruptFile}
                        /\ recordKept
      ]_vars

\* C5 witness: a save attempt with a valid SynthSeg path was rejected by the Python
\* check while a configuration file was stored
C5_Witness ==
    /\ call.fn = "validateAndSaveConfiguration"
    /\ ret # <<>>
    /\ ret[1] = FALSE
    /\ validate_synthseg_path(fs, call.synthseg_path)[1]
    /\ configFile.kind = "json"
    /\ dialogState = "exec"

\* C8 (as claimed): when validateAndSaveConfiguration accepted the configuration in
\* use and the filesystem is unchanged, process() runs the pipeline with the
\* configured python_path and the pipeline finds the toolkit (it does not exit 1 with
\* 'SynthSeg not found').
C8_ValidatedToolkitIsUsed ==
    ( /\ Top = "subprocess"
      /\ cliPc = "exited"
      /\ call.fn = "validateAndSaveConfiguration"
      /\ ret # <<>>
      /\ ret[1]
      /\ getConfiguration(config) = ConfigDict(call.synthseg_path, call.python_path) ) =>
        /\ cmd.python = call.python_path
        /\ ~(cliExit = 1 /\ Printed("Error: SynthSeg not found"))

\* C10: during an Apply click the button is disabled before the event pump and stays
\* disabled, reading 'Processing...', through the blocking subprocess call, so no
\* second onApplyButton call starts while one is in progress; when a click has been
\* handled, whatever the outcome, the button is enabled, reads 'Run Segmentation',
\* and the handler has shown exactly one message box.
C10_ApplyButtonDuringClick ==
    [][ /\ Top' \in {"pump", "subprocess", "cleanup", "finish"} =>
              (~applyEnabled' /\ applyText' = "Processing...")
        /\ Len(applyStack') <= 1
        /\ Len(applyStack') < Len(applyStack) =>
              /\ applyEnabled'
              /\ applyText' = "Run Segmentation"
              /\ Len(applyDialogs[Len(applyDialogs)]) = 1
      ]_vars

\* C10 witness: a click went through the event pump and the pipeline subprocess, which
\* failed; its one message box is open and the button is still disabled
C10_Witness ==
    /\ applyStack = <<"box">>
    /\ exc.type = "RuntimeError"
    /\ exc.returncode = 1
    /\ applyDialogs = <<<<"error">>>>
    /\ ~applyEnabled
    /\ applyText = "Processing..."

\* the exception that ends validate_python_env's try block, "none" when it runs to a
\* return: the combined check's, else (combined check exited non-zero) that of the
\* first per-package check that raises
RECURSIVE FirstRaisedFrom(_, _)
FirstRaisedFrom(tests, i) ==
    IF i > Len(tests) THEN "none"
    ELSE IF tests[i].exc # "none" THEN tests[i].exc
    ELSE FirstRaisedFrom(tests, i + 1)

FirstRaised(result, tests) ==
    IF result.exc # "none" THEN result.exc
    ELSE IF result.returncode = 0 THEN "none"
    ELSE FirstRaisedFrom(tests, 1)

\* the validate_python_env call made inside a save attempt with a valid SynthSeg path
PythonChecked ==
    /\ SaveAttempt
    /\ config'.loaded
    /\ validate_synthseg_path(fs, call'.synthseg_path)[1]
    /\ exists(fs, call'.python_path)

\* C11: validate_python_env always returns a (bool, message) pair; when the combined
\* import check or a per-package check it runs exceeds its timeout (10 s, 5 s) the
\* pair is (False, 'Python validation timed out'). The pipeline subprocess started by
\* process() has no timeout: while it runs the handler stays blocked in process(),
\* and process() goes on only once the subprocess has exited.
C11_ValidationTimesOutProcessWaits ==
    [][ /\ PythonChecked =>
              LET v == validate_python_env(fs, call'.python_path, call'.result, call'.tests)
              IN  /\ Len(v) = 2
                  /\ v[1] \in BOOLEAN
                  /\ Len(v[2]) > 0
                  /\ FirstRaised(call'.result, call'.tests) = "TimeoutExpired" =>
                        /\ v = <<FALSE, "Python validation timed out">>
                        /\ ret' = <<FALSE, "Python environment invalid: Python validation timed out">>
                  /\ ~v[1] => ret' = <<FALSE, "Python environment invalid: " \o v[2]>>
        /\ (Top = "subprocess" /\ cliPc # "exited") =>
              /\ applyStack' = applyStack
              /\ UNCHANGED <<uiVars, applyDialogs, exc, outputSegmentation, sceneSegs, cmd>>
        /\ (Top = "subprocess" /\ Top' # "subprocess") =>
              /\ cliPc = "exited"
              /\ cliExit \in {0, 1}
              /\ Top' = "cleanup"
      ]_vars

\* C11 witness: a save attempt was rejected because the third per-package check timed
\* out, and later process() is blocked on the pipeline subprocess, which is running
\* the toolkit
C11_Witness ==
    /\ call.fn = "validateAndSaveConfiguration"
    /\ call.result = Exited(1)
    /\ call.tests[1] = Exited(1)
    /\ call.tests[3] = Raised("TimeoutExpired")
    /\ ret = <<FALSE, "Python environment invalid: Python validation timed out">>
    /\ Top = "subprocess"
    /\ cliPc = "segment"

\* the spreadsheet's name for the column at position idx (0-based): A..Z, AA..ZZ
StandardColumnName(idx) ==
    IF idx < 26 THEN Ascii65[idx + 1]
    ELSE Ascii65[idx \div 26] \o Ascii65[(idx % 26) + 1]

\* the longest cell text of column j; 0 for a table without rows
RECURSIVE LongestFrom(_, _, _)
LongestFrom(df, j, r) ==
    IF r > Len(df.values) THEN 0
    ELSE Max(Len(df.values[r][j]), LongestFrom(df, j, r + 1))

ClaimedWidth(df, idx) ==
    Min(Max(LongestFrom(df, idx + 1, 1), Len(df.columns[idx + 1])) + 2, 50)

\* C12 (as claimed): for every table the CSV is read into, the auto-sizing step sets,
\* for each column index idx, the width of the spreadsheet column named by the
\* standard name of position idx (A..Z, AA, AB, ...) to
\* min(max(longest cell text length, header length) + 2, 50), and sets no other.
C12_WidthsOnStandardColumns ==
    (ret # <<>> /\ call.fn = "csv_to_excel" /\ read_csv(call.csv).exc = "none") =>
        LET df == read_csv(call.csv)
            names == {StandardColumnName(idx) : idx \in 0..(len_columns(df) - 1)}
        IN  /\ DOMAIN ret.widths = names
            /\ \A idx \in 0..(len_columns(df) - 1) :
                    ret.widths[StandardColumnName(idx)] = ClaimedWidth(df, idx)

\* the volume table of this run is still in the output folder: as volumes.csv, or as
\* the sheet converted from it in volumes.xlsx
VolumeDataPresent ==
    \/ exists(fs, csv_output(cliArgs.output))
    \/ exists(fs, excel_output(cliArgs.output)) /\ xlsxData.kind = "sheet"

\* C13 (as claimed): the pipeline never loses the region-volume data: on every run
\* that exits 0, spreadsheet export skipped or failed included, volumes.csv is still
\* there or volumes.xlsx holds its converted content.
C13_VolumeDataKept ==
    (cliPc = "exited" /\ cliExit = 0) => VolumeDataPresent

\* C14 (as claimed): in every reachable state of the widget the Apply button is
\* enabled only if an input volume is selected and isConfigured() is true.
C14_ApplyEnabledOnlyWhenReady ==
    applyEnabled => (inputSelected /\ isConfigured(fs, config))

====
